---- MODULE Spec2Model ----
(***************************************************************************)
(* Model of the Simple-Blockchain ledger (src/blockchain.py): one node's   *)
(* chain of blocks, the operations that mutate it (add_transaction,        *)
(* set_initial_balance, add_block_from_peer, resolve_conflicts) and the    *)
(* pure functions they use (calculate_hash, calculate_balances,            *)
(* is_transaction_valid, is_chain_valid).                                  *)
(*                                                                         *)
(* SHA-256 over the canonical JSON of a block is modelled as an injective  *)
(* encoding of the hashed fields: the tuple of index, timestamp, sender,   *)
(* recipient, amount and previous hash.  A digest that no block content    *)
(* produces is BogusHash; the sentinel "0" of the genesis block is         *)
(* ZeroHash.  Amounts are integers.                                        *)
(*                                                                         *)
(* The same ledger is then placed in a network of nodes (src/peer.py):     *)
(* SpecNet runs several nodes that exchange transaction, get_chain and     *)
(* chain messages over their links; SpecNode runs the threads of one node  *)
(* (the main thread and one thread per link) around its lock.              *)
(***************************************************************************)
EXTENDS Integers, Sequences, FiniteSets, TLC

VARIABLES
    user_id,    \* Blockchain.user_id: the node's own identity
    chain,      \* Blockchain.chain: the sequence of blocks
    clock,      \* the last value time.time() returned on this node; every reading
                \* is later than the one before
    last        \* the call in progress: the operation, its arguments, the chain
                \* before it and its outcome, until the caller returns to waiting

\* The network of nodes (SpecNet); clock is then the clock of the host they share.
VARIABLES
    chains,     \* node -> its Blockchain.chain; <<>> while the node is not running
    phase,      \* node -> where its main thread is: "down", "prompt" (waiting for the
                \* initial balance in check_initial_balance) or "menu"
    connected,  \* node -> the keys of its connected_peers
    wire,       \* <<from, to>> -> the messages sent on that link and not yet received
    synced,     \* the nodes that asked for synchronization since the latest block
                \* originated by a user
    watch,      \* node -> its latest admitted block, its chain then, and the peers
                \* that held the same chain before and have not changed theirs since
    event       \* the latest step of the network

netvars == <<chains, phase, connected, wire, synced, watch, event>>

\* The threads of one node (SpecNode), around the ledger user_id, chain, clock.
VARIABLES
    lock,             \* Peer.lock: the thread inside `with self.lock`, "" when free
    connected_peers,  \* Peer.connected_peers: peer_id -> the link registered for it
    main,             \* the main thread: where it is in start() and its locals
    links,            \* link -> its thread (handle_peer_connection or
                      \* listen_to_peer): where it is and its locals
    outbox            \* what the latest step of the node sent, if anything

nodevars == <<lock, connected_peers, main, links, outbox>>

vars == <<user_id, chain, clock, last, netvars, nodevars>>

(***************************************************************************)
(* Bounds of the model.                                                    *)
(***************************************************************************)
MaxChainLen == 3    \* appends stop at this chain length; candidate chains are at most this long
MaxAmount   == 2    \* amounts offered are in 0..MaxAmount

(***************************************************************************)
(* Identities and the str.lower() conversion.                              *)
(***************************************************************************)
users == {"alice", "bob", "charlie", "dave"}

Lower(s) ==
    CASE s = "Alice" -> "alice"
      [] s = "Bob"   -> "bob"
      [] OTHER       -> s

(***************************************************************************)
(* Block                                                                   *)
(***************************************************************************)
ZeroHash  == <<>>
BogusHash == <<"bogus">>

Transaction(sender, recipient, amount) ==
    [sender |-> sender, recipient |-> recipient, amount |-> amount]

\* Block.calculate_hash: digest of index, timestamp, transaction, previous_hash
\* (the stored hash is not part of the digest).
calculate_hash(b) ==
    <<b.index, b.timestamp, b.transaction.sender, b.transaction.recipient,
      b.transaction.amount, b.previous_hash>>

\* Block.__init__: the hash is computed from the other four fields.
Block(index, timestamp, transaction, previous_hash) ==
    LET fields == [index |-> index, timestamp |-> timestamp,
                   transaction |-> transaction, previous_hash |-> previous_hash]
    IN  [index |-> index, timestamp |-> timestamp, transaction |-> transaction,
         previous_hash |-> previous_hash, hash |-> calculate_hash(fields)]

\* A to_dict that loses the timestamp.
to_dict_without_time(b) ==
    [index |-> b.index, timestamp |-> 0, transaction |-> b.transaction,
     previous_hash |-> b.previous_hash, hash |-> b.hash]

\* Block.to_dict
to_dict(b) ==
    [index |-> b.index, timestamp |-> b.timestamp, transaction |-> b.transaction,
     previous_hash |-> b.previous_hash, hash |-> b.hash]

\* Block.from_dict: builds the block, then overwrites the computed hash with the
\* hash of the dictionary, unchecked.
from_dict(block_dict) ==
    [Block(block_dict.index, block_dict.timestamp, block_dict.transaction,
           block_dict.previous_hash) EXCEPT !.hash = block_dict.hash]

(***************************************************************************)
(* Blockchain: pure functions of the chain                                 *)
(***************************************************************************)
GenesisTransaction == Transaction("genesis", "genesis", 0)

\* A first block that takes index 1.
create_genesis_block_from_one(timestamp) ==
    Block(1, timestamp, GenesisTransaction, ZeroHash)

\* Blockchain.create_genesis_block
create_genesis_block(timestamp) == Block(0, timestamp, GenesisTransaction, ZeroHash)

\* Blockchain.get_latest_block: chain[-1]
get_latest_block(c) == c[Len(c)]

\* apply_transaction adding an initial balance to the balance instead of
\* assigning it.
apply_transaction_accumulate(balances, transaction) ==
    LET sender    == Lower(transaction.sender)
        recipient == Lower(transaction.recipient)
        amount    == transaction.amount
    IN  IF sender = "initial_balance"
        THEN IF recipient \in DOMAIN balances
             THEN [balances EXCEPT ![recipient] = @ + amount]
             ELSE balances
        ELSE LET debited == IF sender \in DOMAIN balances
                            THEN [balances EXCEPT ![sender] = @ - amount]
                            ELSE balances
             IN  IF recipient \in DOMAIN debited
                 THEN [debited EXCEPT ![recipient] = @ + amount]
                 ELSE debited

\* apply_transaction crediting the recipient without debiting the sender.
apply_transaction_credit_only(balances, transaction) ==
    LET sender    == Lower(transaction.sender)
        recipient == Lower(transaction.recipient)
        amount    == transaction.amount
    IN  IF sender = "initial_balance"
        THEN IF recipient \in DOMAIN balances
             THEN [balances EXCEPT ![recipient] = amount]
             ELSE balances
        ELSE IF recipient \in DOMAIN balances
             THEN [balances EXCEPT ![recipient] = @ + amount]
             ELSE balances

\* One iteration of the loop of calculate_balances.
apply_transaction(balances, transaction) ==
    LET sender    == Lower(transaction.sender)
        recipient == Lower(transaction.recipient)
        amount    == transaction.amount
    IN  IF sender = "initial_balance"
        THEN IF recipient \in DOMAIN balances
             THEN [balances EXCEPT ![recipient] = amount]
             ELSE balances
        ELSE LET debited == IF sender \in DOMAIN balances
                            THEN [balances EXCEPT ![sender] = @ - amount]
                            ELSE balances
             IN  IF recipient \in DOMAIN debited
                 THEN [debited EXCEPT ![recipient] = @ + amount]
                 ELSE debited

\* Blockchain.calculate_balances: replay of chain[1:], in order.
RECURSIVE replay_balances(_, _)
replay_balances(c, n) ==
    IF n <= 1
    THEN [u \in users |-> 0]
    ELSE apply_transaction(replay_balances(c, n - 1), c[n].transaction)

calculate_balances(c) == replay_balances(c, Len(c))

\* Blockchain.get_balance
get_balance(c, user) ==
    LET balances == calculate_balances(c)
    IN  IF Lower(user) \in DOMAIN balances THEN balances[Lower(user)] ELSE 0

\* is_transaction_valid without the comparison of the balance with the amount.
is_transaction_valid_any_amount(c, transaction) ==
    LET sender == Lower(transaction.sender)
    IN  IF sender = "genesis" THEN TRUE
        ELSE IF sender = "initial_balance" THEN TRUE
        ELSE sender \in DOMAIN calculate_balances(c)

\* Blockchain.is_transaction_valid
is_transaction_valid(c, transaction) ==
    LET sender == Lower(transaction.sender)
        amount == transaction.amount
    IN  IF sender = "genesis" THEN TRUE
        ELSE IF sender = "initial_balance" THEN TRUE
        ELSE LET balances == calculate_balances(c)
             IN  sender \in DOMAIN balances /\ balances[sender] >= amount

\* Blockchain.is_chain_valid
is_chain_valid(c) ==
    \A i \in 2..Len(c) :
        /\ c[i].hash = calculate_hash(c[i])
        /\ c[i].previous_hash = c[i-1].hash

(***************************************************************************)
(* Blockchain: operations.  Each returns the new chain, the exception it   *)
(* raised ("" when none) and its return value.                             *)
(***************************************************************************)
\* add_transaction sealing the block with the index of the latest block.
add_transaction_same_index(c, sender, recipient, amount, now) ==
    LET transaction == Transaction(Lower(sender), Lower(recipient), amount)
    IN  IF ~is_transaction_valid(c, transaction)
        THEN [chain |-> c, raised |-> "ValueError", ret |-> <<>>]
        ELSE IF c = <<>>
        THEN [chain |-> c, raised |-> "IndexError", ret |-> <<>>]
        ELSE LET previous_block == get_latest_block(c)
                 new_block      == Block(previous_block.index, now, transaction,
                                         previous_block.hash)
             IN  [chain |-> Append(c, new_block), raised |-> "", ret |-> <<new_block>>]

\* Blockchain.add_transaction
add_transaction(c, sender, recipient, amount, now) ==
    LET transaction == Transaction(Lower(sender), Lower(recipient), amount)
    IN  IF ~is_transaction_valid(c, transaction)
        THEN [chain |-> c, raised |-> "ValueError", ret |-> <<>>]
        ELSE IF c = <<>>
        THEN [chain |-> c, raised |-> "IndexError", ret |-> <<>>]
        ELSE LET previous_block == get_latest_block(c)
                 new_index      == previous_block.index + 1
                 new_block      == Block(new_index, now, transaction, previous_block.hash)
             IN  [chain |-> Append(c, new_block), raised |-> "", ret |-> <<new_block>>]

\* set_initial_balance linking the block to the predecessor of the latest block.
set_initial_balance_stale_link(c, uid, balance, now) ==
    LET transaction == Transaction("initial_balance", uid, balance)
    IN  IF c = <<>>
        THEN [chain |-> c, raised |-> "IndexError"]
        ELSE LET previous_block == get_latest_block(c)
                 new_block      == Block(previous_block.index + 1, now, transaction,
                                         previous_block.previous_hash)
             IN  [chain |-> Append(c, new_block), raised |-> ""]

\* Blockchain.set_initial_balance
set_initial_balance(c, uid, balance, now) ==
    LET transaction == Transaction("initial_balance", uid, balance)
    IN  IF c = <<>>
        THEN [chain |-> c, raised |-> "IndexError"]
        ELSE LET previous_block == get_latest_block(c)
                 new_index      == previous_block.index + 1
                 new_block      == Block(new_index, now, transaction, previous_block.hash)
             IN  [chain |-> Append(c, new_block), raised |-> ""]

\* add_block_from_peer putting the accepted block in the place of the latest block.
add_block_from_peer_overwriting(c, block_dict) ==
    LET block == from_dict(block_dict)
        latest_block == get_latest_block(c)
    IN  IF Len(c) > 0 /\ block.index # latest_block.index + 1
        THEN [chain |-> c, ret |-> FALSE]
        ELSE IF Len(c) > 0 /\ block.previous_hash # latest_block.hash
        THEN [chain |-> c, ret |-> FALSE]
        ELSE IF Len(c) > 0 /\ ~is_transaction_valid(c, block.transaction)
        THEN [chain |-> c, ret |-> FALSE]
        ELSE [chain |-> [c EXCEPT ![Len(c)] = block], ret |-> TRUE]

\* add_block_from_peer without the comparison of previous_hash with the latest hash.
add_block_from_peer_unlinked(c, block_dict) ==
    LET block == from_dict(block_dict)
        latest_block == get_latest_block(c)
    IN  IF Len(c) > 0 /\ block.index # latest_block.index + 1
        THEN [chain |-> c, ret |-> FALSE]
        ELSE IF Len(c) > 0 /\ ~is_transaction_valid(c, block.transaction)
        THEN [chain |-> c, ret |-> FALSE]
        ELSE [chain |-> Append(c, block), ret |-> TRUE]

\* add_block_from_peer without the comparisons of the index and of previous_hash.
add_block_from_peer_anywhere(c, block_dict) ==
    LET block == from_dict(block_dict)
    IN  IF Len(c) > 0 /\ ~is_transaction_valid(c, block.transaction)
        THEN [chain |-> c, ret |-> FALSE]
        ELSE [chain |-> Append(c, block), ret |-> TRUE]

\* Blockchain.add_block_from_peer
add_block_from_peer(c, block_dict) ==
    LET block == from_dict(block_dict)
        latest_block == get_latest_block(c)
    IN  IF Len(c) > 0 /\ block.index # latest_block.index + 1
        THEN [chain |-> c, ret |-> FALSE]
        ELSE IF Len(c) > 0 /\ block.previous_hash # latest_block.hash
        THEN [chain |-> c, ret |-> FALSE]
        ELSE IF Len(c) > 0 /\ ~is_transaction_valid(c, block.transaction)
        THEN [chain |-> c, ret |-> FALSE]
        ELSE [chain |-> Append(c, block), ret |-> TRUE]

\* The verification loop of resolve_conflicts over one candidate, from position i
\* (0-based i-1) on: the first failing comparison ends it with valid = False.
RECURSIVE verify_peer_chain(_, _)
verify_peer_chain(peer_chain, i) ==
    IF i > Len(peer_chain) THEN TRUE
    ELSE IF peer_chain[i].previous_hash # peer_chain[i-1].hash THEN FALSE
    ELSE IF peer_chain[i].hash # calculate_hash(peer_chain[i]) THEN FALSE
    ELSE verify_peer_chain(peer_chain, i + 1)

\* scan_peer_chains taking a candidate that is as long as the best so far.
RECURSIVE scan_peer_chains_not_shorter(_, _, _)
scan_peer_chains_not_shorter(c, peer_chains, k) ==
    IF k = 0
    THEN [max_length |-> Len(c), new_chain |-> <<>>]
    ELSE LET acc        == scan_peer_chains_not_shorter(c, peer_chains, k - 1)
             peer_chain == [i \in 1..Len(peer_chains[k]) |-> from_dict(peer_chains[k][i])]
             length     == Len(peer_chain)
         IN  IF length >= acc.max_length /\ verify_peer_chain(peer_chain, 2)
             THEN [max_length |-> length, new_chain |-> peer_chain]
             ELSE acc

\* scan_peer_chains that also replays the candidate and refuses it when one of
\* its transactions is not valid against the blocks before it.
RECURSIVE scan_peer_chains_checking_funds(_, _, _)
scan_peer_chains_checking_funds(c, peer_chains, k) ==
    IF k = 0
    THEN [max_length |-> Len(c), new_chain |-> <<>>]
    ELSE LET acc        == scan_peer_chains_checking_funds(c, peer_chains, k - 1)
             peer_chain == [i \in 1..Len(peer_chains[k]) |-> from_dict(peer_chains[k][i])]
             length     == Len(peer_chain)
             funded     == \A i \in 2..length :
                              is_transaction_valid(SubSeq(peer_chain, 1, i - 1),
                                                   peer_chain[i].transaction)
         IN  IF length > acc.max_length /\ verify_peer_chain(peer_chain, 2) /\ funded
             THEN [max_length |-> length, new_chain |-> peer_chain]
             ELSE acc

\* The scan of resolve_conflicts over the first k candidates: max_length and
\* new_chain (None is the empty sequence) after them.
RECURSIVE scan_peer_chains(_, _, _)
scan_peer_chains(c, peer_chains, k) ==
    IF k = 0
    THEN [max_length |-> Len(c), new_chain |-> <<>>]
    ELSE LET acc        == scan_peer_chains(c, peer_chains, k - 1)
             peer_chain == [i \in 1..Len(peer_chains[k]) |-> from_dict(peer_chains[k][i])]
             length     == Len(peer_chain)
         IN  IF length > acc.max_length /\ verify_peer_chain(peer_chain, 2)
             THEN [max_length |-> length, new_chain |-> peer_chain]
             ELSE acc

\* Blockchain.resolve_conflicts
resolve_conflicts(c, peer_chains) ==
    LET found == scan_peer_chains(c, peer_chains, Len(peer_chains))
    IN  IF found.new_chain # <<>>
        THEN [chain |-> found.new_chain, ret |-> TRUE]
        ELSE [chain |-> c, ret |-> FALSE]

(***************************************************************************)
(* Inputs offered to the operations.                                       *)
(***************************************************************************)
NodeIds    == {"alice", "bob"}
Senders    == {"alice", "Alice", "bob", "mallory"}
Recipients == {"alice", "Bob"}
Amounts    == 0..MaxAmount

\* Transactions a peer's block may carry.
PeerTransactions ==
    { Transaction("initial_balance", "bob", MaxAmount),
      Transaction("bob", "alice", 1),
      Transaction("Alice", "bob", 1),
      Transaction("mallory", "alice", 0),
      Transaction("genesis", "alice", 1) }

\* Block records a peer may send, given the local chain: the right or a stale
\* index, the right or a wrong link, the right or a wrong digest.
PeerBlocks(c, t) ==
    LET latest == get_latest_block(c)
    IN  { [to_dict(Block(index, t, transaction, previous_hash)) EXCEPT !.hash =
              IF good THEN @ ELSE BogusHash] :
          index \in {latest.index, latest.index + 1},
          transaction \in PeerTransactions,
          previous_hash \in {latest.hash, ZeroHash},
          good \in BOOLEAN }

\* The transactions of two foreign histories: one funds bob before bob spends,
\* the other has bob spend what bob never had.
ScriptTransaction(script, n) ==
    IF script = "funded"
    THEN IF n = 2 THEN Transaction("initial_balance", "bob", MaxAmount)
         ELSE IF n % 2 = 1 THEN Transaction("bob", "alice", 1)
         ELSE Transaction("alice", "bob", 1)
    ELSE Transaction("bob", "alice", MaxAmount)

\* A foreign chain of n blocks following a script (the overdrawn history starts
\* from another genesis block than the local one), with at most one fault at
\* position pos: "link" gives that block a previous_hash that is not its
\* predecessor's hash, "hash" gives it a stored hash that is not its digest
\* (the successor links to the stored hash).
RECURSIVE ForeignChain(_, _, _, _)
ForeignChain(script, n, fault, pos) ==
    IF n = 1
    THEN <<to_dict(create_genesis_block(IF script = "funded" THEN 0 ELSE 1))>>
    ELSE LET prefix == ForeignChain(script, n - 1, fault, pos)
             prev   == IF fault = "link" /\ pos = n THEN BogusHash
                       ELSE prefix[n - 1].hash
             sealed == Block(n - 1, 0, ScriptTransaction(script, n), prev)
             block  == IF fault = "hash" /\ pos = n
                       THEN [sealed EXCEPT !.hash = BogusHash]
                       ELSE sealed
         IN  Append(prefix, to_dict(block))

\* Candidate chains: the funded history intact or with a fault at its second or
\* its last block, and the overdrawn history intact.
CandidateChains ==
    UNION { { ForeignChain("funded", n, fault, pos) :
                fault \in {"none", "link", "hash"}, pos \in {2, n} }
            \cup { ForeignChain("overdrawn", n, "none", n) } : n \in 2..MaxChainLen }

\* Candidates offered two at a time: both histories intact, and the funded one
\* with a wrong digest in its last block.
PairedChains ==
    UNION { { ForeignChain("funded", n, "none", n),
              ForeignChain("funded", n, "hash", n),
              ForeignChain("overdrawn", n, "none", n) } : n \in 2..MaxChainLen }

\* resolve_conflicts is offered no candidate, one, or two in either order.
CandidateLists ==
    {<<>>} \cup { <<a>> : a \in CandidateChains }
           \cup { <<a, b>> : a \in PairedChains, b \in PairedChains }

(***************************************************************************)
(* The node as a state machine.  Each operation runs as one step; the      *)
(* caller then takes the outcome and returns to waiting (Return).          *)
(***************************************************************************)
Idle == [op |-> "idle", args |-> <<>>, old |-> <<>>, raised |-> "", ret |-> <<>>]

\* No network: the node is studied alone.
NoNetwork ==
    /\ chains = <<>>
    /\ phase = <<>>
    /\ connected = <<>>
    /\ wire = <<>>
    /\ synced = {}
    /\ watch = <<>>
    /\ event = <<>>

\* No threads: the ledger or the network is studied at the level of whole calls.
NoThreads ==
    /\ lock = ""
    /\ connected_peers = <<>>
    /\ main = <<>>
    /\ links = <<>>
    /\ outbox = <<>>

Init ==
    /\ user_id \in NodeIds
    /\ chain = <<create_genesis_block(0)>>
    /\ clock = 0
    /\ last = Idle
    /\ NoNetwork
    /\ NoThreads

Admit ==
    /\ last = Idle
    /\ Len(chain) < MaxChainLen
    /\ \E sender \in Senders, recipient \in Recipients, amount \in Amounts :
         LET r == add_transaction(chain, sender, recipient, amount, clock + 1)
         IN  /\ chain' = r.chain
             /\ clock' = IF r.raised = "" THEN clock + 1 ELSE clock
             /\ last' = [op |-> "add_transaction",
                         args |-> <<sender, recipient, amount>>,
                         old |-> chain, raised |-> r.raised, ret |-> r.ret]
    /\ UNCHANGED <<user_id, netvars, nodevars>>

SetInitialBalance ==
    /\ last = Idle
    /\ Len(chain) < MaxChainLen
    /\ \E balance \in Amounts :
         LET r == set_initial_balance(chain, user_id, balance, clock + 1)
         IN  /\ chain' = r.chain
             /\ clock' = IF r.raised = "" THEN clock + 1 ELSE clock
             /\ last' = [op |-> "set_initial_balance", args |-> <<balance>>,
                         old |-> chain, raised |-> r.raised, ret |-> <<>>]
    /\ UNCHANGED <<user_id, netvars, nodevars>>

IngestRemoteBlock ==
    /\ last = Idle
    /\ Len(chain) < MaxChainLen
    /\ \E block_dict \in PeerBlocks(chain, clock) :
         LET r == add_block_from_peer(chain, block_dict)
         IN  /\ chain' = r.chain
             /\ last' = [op |-> "add_block_from_peer", args |-> <<block_dict>>,
                         old |-> chain, raised |-> "", ret |-> <<r.ret>>]
    /\ UNCHANGED <<user_id, clock, netvars, nodevars>>

ResolveConflicts ==
    /\ last = Idle
    /\ \E peer_chains \in CandidateLists :
         LET r == resolve_conflicts(chain, peer_chains)
         IN  /\ chain' = r.chain
             /\ last' = [op |-> "resolve_conflicts", args |-> <<peer_chains>>,
                         old |-> chain, raised |-> "", ret |-> <<r.ret>>]
    /\ UNCHANGED <<user_id, clock, netvars, nodevars>>

Return ==
    /\ last # Idle
    /\ last' = Idle
    /\ UNCHANGED <<user_id, chain, clock, netvars, nodevars>>

Next == Admit \/ SetInitialBalance \/ IngestRemoteBlock \/ ResolveConflicts \/ Return

Spec == Init /\ [][Next]_vars

\* The node when only local operations happen.
NextLocal == Admit \/ SetInitialBalance \/ Return

SpecLocal == Init /\ [][NextLocal]_vars

(***************************************************************************)
(* Properties.  The source reads every identity through str.lower(), so    *)
(* two names are the same identity when they agree up to case, and a name  *)
(* is of the roster when its lower-case form is in users.                  *)
(***************************************************************************)
SameIdentity(a, b) == Lower(a) = Lower(b)
InRoster(a)        == Lower(a) \in users

\* The chain before the call in progress is a proper prefix of the chain, which
\* has exactly one block more.
AppendedOne ==
    /\ Len(chain) = Len(last.old) + 1
    /\ \A i \in 1..Len(last.old) : chain[i] = last.old[i]

\* C1: in every reachable state, every block after the first links to the hash of
\* its predecessor and stores the digest of its own content, whatever blocks and
\* candidate chains the peers offered.
C1_EveryBlockLinkedAndHashed ==
    \A i \in 2..Len(chain) :
        /\ chain[i].previous_hash = chain[i-1].hash
        /\ chain[i].hash = calculate_hash(chain[i])

\* C2: a chain grown from the genesis block by add_transaction (successful or
\* failing) and set_initial_balance alone passes is_chain_valid.
C2_LocalChainIsValid == is_chain_valid(chain)

C2_Witness ==
    /\ Len(chain) >= 3
    /\ chain[2].transaction.sender = "initial_balance"
    /\ last.op = "add_transaction" /\ last.raised = ""
    /\ last.args[3] > 0

\* C3: add_transaction by a roster sender whose derived balance is below the
\* amount raises ValueError and leaves the chain the same sequence of blocks.
C3_InsufficientFundsRejected ==
    ( /\ last.op = "add_transaction"
      /\ InRoster(last.args[1])
      /\ calculate_balances(last.old)[Lower(last.args[1])] < last.args[3] )
    => ( /\ last.raised = "ValueError"
         /\ last.ret = <<>>
         /\ chain = last.old )

C3_Witness ==
    /\ last.op = "add_transaction"
    /\ last.args[1] = "bob" /\ last.args[3] = 1
    /\ Len(last.old) >= 2
    /\ calculate_balances(last.old)["bob"] = 0
    /\ last.raised = "ValueError"

\* C4: a successful add_transaction appends exactly one block, with the index after
\* the latest block's, linked to the latest block's hash and carrying the
\* transaction of the call; it returns that block and leaves the earlier blocks
\* as they were.
C4_AdmitAppendsSealedBlock ==
    (last.op = "add_transaction" /\ last.raised = "")
    => LET previous == last.old[Len(last.old)]
           new      == chain[Len(chain)]
       IN  /\ AppendedOne
           /\ new.index = previous.index + 1
           /\ new.previous_hash = previous.hash
           /\ SameIdentity(new.transaction.sender, last.args[1])
           /\ SameIdentity(new.transaction.recipient, last.args[2])
           /\ new.transaction.amount = last.args[3]
           /\ last.ret = <<new>>

C4_Witness ==
    /\ last.op = "add_transaction" /\ last.raised = ""
    /\ Len(last.old) >= 2
    /\ last.args[3] > 0
    /\ Len(chain) = Len(last.old) + 1

\* The balance of roster identity u in closed form: the amount of the last
\* initial_balance block for u (0 when there is none) plus, over the blocks after
\* it, what the transfers credit to u minus what they debit from u.
IsInitialBalanceFor(c, i, u) ==
    /\ Lower(c[i].transaction.sender) = "initial_balance"
    /\ Lower(c[i].transaction.recipient) = u

LastInitialBalance(c, u) ==
    LET S == {i \in 2..Len(c) : IsInitialBalanceFor(c, i, u)}
    IN  IF S = {} THEN 1 ELSE CHOOSE i \in S : \A j \in S : j <= i

TransferEffect(transaction, u) ==
    IF Lower(transaction.sender) = "initial_balance" THEN 0
    ELSE (IF Lower(transaction.recipient) = u THEN transaction.amount ELSE 0)
         - (IF Lower(transaction.sender) = u THEN transaction.amount ELSE 0)

RECURSIVE SumTransfers(_, _, _, _)
SumTransfers(c, u, from, to) ==
    IF from > to THEN 0
    ELSE TransferEffect(c[from].transaction, u) + SumTransfers(c, u, from + 1, to)

ExpectedBalance(c, u) ==
    LET k == LastInitialBalance(c, u)
    IN  (IF k = 1 THEN 0 ELSE c[k].transaction.amount)
        + SumTransfers(c, u, k + 1, Len(c))

\* C5: calculate_balances has exactly one entry per roster identity, each the
\* result of replaying blocks 1..n from 0: an initial_balance block assigns, any
\* other block debits a roster sender and credits a roster recipient, identities
\* outside the roster have no effect; on the genesis-only chain every entry is 0.
C5_BalancesAreTheReplay ==
    LET balances == calculate_balances(chain)
    IN  /\ DOMAIN balances = users
        /\ \A u \in users : balances[u] = ExpectedBalance(chain, u)
        /\ Len(chain) = 1 => \A u \in users : balances[u] = 0

\* set_initial_balance(MaxAmount) on alice's node, then add_transaction(alice, bob, 1).
C5_Witness ==
    /\ user_id = "alice"
    /\ Len(chain) = 3
    /\ chain[2].transaction = Transaction("initial_balance", "alice", MaxAmount)
    /\ chain[3].transaction = Transaction("alice", "bob", 1)
    /\ last.op = "add_transaction"
    /\ calculate_balances(chain)["alice"] = MaxAmount - 1
    /\ calculate_balances(chain)["bob"] = 1

\* Transactions is_transaction_valid is asked about on every reachable chain (each
\* chain is the chain of a state in which the node waits for the next call).
ProbeTransactions ==
    { Transaction(sender, "alice", amount) :
        sender \in Senders \cup {"genesis", "initial_balance"}, amount \in Amounts }

IsSentinel(sender) == Lower(sender) \in {"genesis", "initial_balance"}

\* The answer is_transaction_valid gave inside the call in progress, when the call
\* reached it: add_transaction raises ValueError exactly when it is false, and
\* add_block_from_peer returns it once index and link are right.
AnsweredInCall(expected(_, _)) ==
    /\ last.op = "add_transaction"
       => LET transaction == Transaction(last.args[1], last.args[2], last.args[3])
          IN  (last.raised # "ValueError") = expected(last.old, transaction)
    /\ ( /\ last.op = "add_block_from_peer"
         /\ last.args[1].index = last.old[Len(last.old)].index + 1
         /\ last.args[1].previous_hash = last.old[Len(last.old)].hash )
       => last.ret = <<expected(last.old, last.args[1].transaction)>>

\* C6 as stated: is_transaction_valid is true for the senders genesis and
\* initial_balance whatever the amount and the chain, and for any other sender
\* exactly when the sender's derived balance (get_balance: 0 for a name outside
\* the roster) is at least the amount.
ValidAsStated(c, transaction) ==
    \/ IsSentinel(transaction.sender)
    \/ get_balance(c, transaction.sender) >= transaction.amount

C6_ValidIffBalanceCoversAmount ==
    /\ last = Idle
       => \A transaction \in ProbeTransactions :
            is_transaction_valid(chain, transaction) = ValidAsStated(chain, transaction)
    /\ AnsweredInCall(ValidAsStated)

\* C6 amended: for a sender other than genesis and initial_balance it is true
\* exactly when the sender is a roster identity whose derived balance is at least
\* the amount; a sender outside the roster is refused whatever the amount.
ValidAsAmended(c, transaction) ==
    \/ IsSentinel(transaction.sender)
    \/ /\ InRoster(transaction.sender)
       /\ ExpectedBalance(c, Lower(transaction.sender)) >= transaction.amount

C6_ValidIffRosterBalanceCoversAmount ==
    /\ last = Idle
       => \A transaction \in ProbeTransactions :
            is_transaction_valid(chain, transaction) = ValidAsAmended(chain, transaction)
    /\ AnsweredInCall(ValidAsAmended)

\* A peer's block with the right index and link, from a sender outside the roster
\* with amount 0, was refused.
C6_Witness ==
    /\ last.op = "add_block_from_peer"
    /\ last.args[1].index = last.old[Len(last.old)].index + 1
    /\ last.args[1].previous_hash = last.old[Len(last.old)].hash
    /\ last.args[1].transaction.sender = "mallory"
    /\ last.args[1].transaction.amount = 0
    /\ last.ret = <<FALSE>>
    /\ chain = last.old

\* The balances after the call in progress are the balances before it with the
\* amount debited from the sender and credited to the recipient.
TransferAccumulates(transaction) ==
    \A u \in users :
        calculate_balances(chain)[u] =
            calculate_balances(last.old)[u] + TransferEffect(transaction, u)

\* C7: set_initial_balance never raises, appends exactly one initial_balance block
\* for the node's own identity, and right after it the derived balance of that
\* identity is the amount, whatever the earlier blocks; a transfer admitted later
\* adds to and subtracts from the balances it finds.
C7_InitialBalanceOverwrites ==
    /\ last.op = "set_initial_balance"
       => /\ last.raised = ""
          /\ AppendedOne
          /\ chain[Len(chain)].transaction =
                 Transaction("initial_balance", user_id, last.args[1])
          /\ calculate_balances(chain)[user_id] = last.args[1]
    /\ (last.op = "add_transaction" /\ last.raised = "")
       => TransferAccumulates(chain[Len(chain)].transaction)

\* A second set_initial_balance, with another amount than the balance it found.
C7_Witness ==
    /\ last.op = "set_initial_balance"
    /\ Len(last.old) >= 2
    /\ \E i \in 2..Len(last.old) : IsInitialBalanceFor(last.old, i, user_id)
    /\ calculate_balances(last.old)[user_id] # last.args[1]
    /\ calculate_balances(last.old)[user_id] # 0
    /\ calculate_balances(chain)[user_id] = last.args[1]

\* C8: add_block_from_peer returns true exactly when the block's index is the
\* latest index plus one, its previous_hash is the latest hash and its transaction
\* is valid against the chain as it is; then the chain is the old chain followed
\* by that block as received, and otherwise the chain is unchanged.
C8_IngestAcceptsExactlyTheNextValidBlock ==
    last.op = "add_block_from_peer"
    => LET block  == last.args[1]
           latest == last.old[Len(last.old)]
           accept == /\ block.index = latest.index + 1
                     /\ block.previous_hash = latest.hash
                     /\ ValidAsAmended(last.old, block.transaction)
       IN  /\ last.ret = <<accept>>
           /\ accept => chain = Append(last.old, block)
           /\ ~accept => chain = last.old

\* A funded transfer of a roster identity arrived on a chain of two or more
\* blocks and was appended.
C8_Witness ==
    /\ last.op = "add_block_from_peer"
    /\ last.ret = <<TRUE>>
    /\ Len(last.old) >= 2
    /\ last.args[1].transaction = Transaction("bob", "alice", 1)
    /\ chain[Len(chain)] = last.args[1]

\* Linkage and recomputed hash hold for every consecutive pair of the chain.
StructurallyValid(c) ==
    \A i \in 2..Len(c) :
        /\ c[i].previous_hash = c[i-1].hash
        /\ c[i].hash = calculate_hash(c[i])

\* The positions of the candidates that are strictly longer than the local chain
\* and structurally valid.
Eligible(c, peer_chains) ==
    { k \in 1..Len(peer_chains) :
        Len(peer_chains[k]) > Len(c) /\ StructurallyValid(peer_chains[k]) }

\* C9: resolve_conflicts returns true and replaces the chain by the longest
\* structurally valid candidate that is strictly longer than the local chain, the
\* earliest among those of that length; when no candidate is both, it returns
\* false and the chain is unchanged.
C9_LongestValidCandidateWins ==
    last.op = "resolve_conflicts"
    => LET peer_chains == last.args[1]
           eligible    == Eligible(last.old, peer_chains)
       IN  IF eligible = {}
           THEN last.ret = <<FALSE>> /\ chain = last.old
           ELSE /\ last.ret = <<TRUE>>
                /\ \E k \in eligible :
                     /\ chain = peer_chains[k]
                     /\ \A j \in eligible : Len(peer_chains[j]) <= Len(peer_chains[k])
                     /\ \A j \in eligible :
                          Len(peer_chains[j]) = Len(peer_chains[k]) => k <= j

\* Two different valid candidates, both two blocks longer than the local chain:
\* the first was adopted.
C9_Witness ==
    /\ last.op = "resolve_conflicts"
    /\ Len(last.args[1]) = 2
    /\ Eligible(last.old, last.args[1]) = {1, 2}
    /\ Len(last.args[1][1]) = Len(last.old) + 2
    /\ Len(last.args[1][2]) = Len(last.old) + 2
    /\ last.args[1][1] # last.args[1][2]
    /\ last.ret = <<TRUE>>
    /\ chain = last.args[1][1]

\* The chain holds a transfer of a roster identity whose balance, replayed from
\* the blocks before it, is below the amount.
HasOverdraft(c) ==
    \E i \in 2..Len(c) :
        /\ ~IsSentinel(c[i].transaction.sender)
        /\ InRoster(c[i].transaction.sender)
        /\ ExpectedBalance(SubSeq(c, 1, i - 1), Lower(c[i].transaction.sender))
               < c[i].transaction.amount

\* C10: resolve_conflicts does not look at balances: a candidate that is strictly
\* longer and structurally valid makes it return true although it holds an
\* overdraft, and as the only candidate it becomes the chain.
C10_OverdrawnCandidateAdopted ==
    last.op = "resolve_conflicts"
    => \A k \in Eligible(last.old, last.args[1]) :
         HasOverdraft(last.args[1][k])
         => /\ last.ret = <<TRUE>>
            /\ Len(chain) >= Len(last.args[1][k])
            /\ Len(last.args[1]) = 1 => chain = last.args[1][k]

\* resolve_conflicts returned true and a roster identity's derived balance is
\* negative.
C10_Witness ==
    /\ last.op = "resolve_conflicts"
    /\ last.ret = <<TRUE>>
    /\ HasOverdraft(chain)
    /\ \E u \in users : calculate_balances(chain)[u] < 0

\* Chain d is chain c followed by exactly one block.
ExtendsByOne(c, d) ==
    /\ Len(d) = Len(c) + 1
    /\ \A i \in 1..Len(c) : d[i] = c[i]

\* C11: a step that changes the chain either is a resolve_conflicts that returned
\* true, or is an add_transaction, set_initial_balance or add_block_from_peer that
\* left the old chain as a proper prefix of the new one, with one block added; no
\* other step removes or rewrites a block.
C11_AppendOnlyExceptConsensus ==
    [][ chain' # chain
        => \/ /\ last'.op \in {"add_transaction", "set_initial_balance",
                               "add_block_from_peer"}
              /\ ExtendsByOne(chain, chain')
           \/ /\ last'.op = "resolve_conflicts"
              /\ last'.ret = <<TRUE>> ]_vars

\* A peer's block was appended to a chain of two or more blocks.
C11_Witness ==
    /\ last.op = "add_block_from_peer"
    /\ last.ret = <<TRUE>>
    /\ Len(last.old) >= 2
    /\ ExtendsByOne(last.old, chain)

(***************************************************************************)
(* The network (src/peer.py).  The nodes run on one host and read one      *)
(* clock.  A link delivers, in order and one at a time, the messages sent  *)
(* on it.  Each step is one whole handler of one node: start(), the        *)
(* answer to the initial-balance prompt, a menu choice, or the processing  *)
(* of one received message.                                                *)
(***************************************************************************)
MaxInFlight == 1    \* a send waits while this many messages are unread on the link

\* The nodes of the network: those that have a ledger, started or not.
NetNodes == DOMAIN chains

Links == {l \in NetNodes \X NetNodes : l[1] # l[2]}

InitialFunds == {MaxAmount}

SentAmounts == {1}

TransactionMessage(block_dict) == [type |-> "transaction", block |-> block_dict]

GetChainMessage == [type |-> "get_chain"]

ChainMessage(c) == [type |-> "chain", chain |-> [i \in 1..Len(c) |-> to_dict(c[i])]]

\* socket.send of msg by node from on its link to every node of targets.
Send(w, from, targets, msg) ==
    [l \in Links |-> IF l[1] = from /\ l[2] \in targets THEN Append(w[l], msg) ELSE w[l]]

HasRoom(w, from, targets) ==
    \A p \in targets : Len(w[<<from, p>>]) < MaxInFlight

\* A broadcast that reaches nobody.
broadcast_targets_nobody(n, exclude) == {}

\* The peers a broadcast reaches: every connected peer but the excluded one.
broadcast_targets(n, exclude) == connected[n] \ {exclude}

broadcast_transaction(w, n, block_dict, exclude) ==
    Send(w, n, broadcast_targets(n, exclude), TransactionMessage(block_dict))

NoWatch == [block |-> <<>>, chain |-> <<>>, peers |-> {}]

\* Node m changed its chain: it no longer holds the chain it shared with an admitter.
Touched(wt, m) == [a \in NetNodes |-> [wt[a] EXCEPT !.peers = @ \ {m}]]

\* Node a admitted block and now holds new_chain.
Admitted(wt, a, block, new_chain) ==
    [Touched(wt, a) EXCEPT ![a] =
        [block |-> block, chain |-> new_chain,
         peers |-> {b \in connected[a] : chains[b] = chains[a]}]]

NoEvent == [op |-> "none", node |-> "", peer |-> "", type |-> "", raised |-> "",
            ret |-> <<>>, block |-> <<>>, watched |-> FALSE]

NetInit ==
    /\ user_id = ""
    /\ chain = <<>>
    /\ clock = 0
    /\ last = Idle
    /\ chains = [n \in {"alice", "bob"} |-> <<>>]
    /\ phase = [n \in NetNodes |-> "down"]
    /\ connected = [n \in NetNodes |-> {}]
    /\ wire = [l \in Links |-> <<>>]
    /\ synced = {}
    /\ watch = [n \in NetNodes |-> NoWatch]
    /\ event = NoEvent
    /\ NoThreads

\* Peer.__init__ and start() up to the prompt: the node creates its genesis block,
\* connects to every peer that is running (both ends register the link), asks each
\* of them for its chain and, its balance being 0, waits for the initial balance.
NetStart(n) ==
    /\ phase[n] = "down"
    /\ LET up == {p \in NetNodes : phase[p] # "down"}
       IN  /\ chains' = [chains EXCEPT ![n] = <<create_genesis_block(clock + 1)>>]
           /\ clock' = clock + 1
           /\ connected' = [p \in NetNodes |->
                               IF p = n THEN up
                               ELSE IF p \in up THEN connected[p] \cup {n}
                               ELSE connected[p]]
           /\ wire' = Send(wire, n, up, GetChainMessage)
    /\ phase' = [phase EXCEPT ![n] = "prompt"]
    /\ event' = [NoEvent EXCEPT !.op = "start", !.node = n]
    /\ UNCHANGED <<nodevars, user_id, chain, last, synced, watch>>

\* check_initial_balance once the user has typed the balance: set_initial_balance,
\* then the broadcast of the latest block.
NetCheckInitialBalance(n) ==
    /\ phase[n] = "prompt"
    /\ Len(chains[n]) < MaxChainLen
    /\ HasRoom(wire, n, connected[n])
    /\ \E initial_balance \in InitialFunds :
         LET r == set_initial_balance(chains[n], n, initial_balance, clock + 1)
             block == get_latest_block(r.chain)
         IN  /\ r.raised = ""
             /\ chains' = [chains EXCEPT ![n] = r.chain]
             /\ clock' = clock + 1
             /\ wire' = broadcast_transaction(wire, n, to_dict(block), "")
             /\ event' = [NoEvent EXCEPT !.op = "check_initial_balance", !.node = n]
    /\ phase' = [phase EXCEPT ![n] = "menu"]
    /\ watch' = Touched(watch, n)
    /\ synced' = {}
    /\ UNCHANGED <<nodevars, user_id, chain, last, connected>>

\* Menu choice 1, send_transaction: add_transaction, then the broadcast of the block
\* it returned; a ValueError is reported and nothing is sent.
NetSendTransaction(n) ==
    /\ phase[n] = "menu"
    /\ Len(chains[n]) < MaxChainLen
    /\ HasRoom(wire, n, connected[n])
    /\ \E recipient \in NetNodes \ {n}, amount \in SentAmounts :
         LET r == add_transaction(chains[n], n, recipient, amount, clock + 1)
         IN  IF r.raised = ""
             THEN /\ chains' = [chains EXCEPT ![n] = r.chain]
                  /\ clock' = clock + 1
                  /\ wire' = broadcast_transaction(wire, n, to_dict(r.ret[1]), "")
                  /\ watch' = Admitted(watch, n, r.ret[1], r.chain)
                  /\ synced' = {}
                  /\ event' = [NoEvent EXCEPT !.op = "send_transaction", !.node = n,
                                              !.block = r.ret]
             ELSE /\ event' = [NoEvent EXCEPT !.op = "send_transaction", !.node = n,
                                              !.raised = r.raised]
                  /\ UNCHANGED <<chains, clock, wire, watch, synced>>
    /\ UNCHANGED <<nodevars, user_id, chain, last, phase, connected>>

\* Menu choice 5, synchronize_blockchain: get_chain to every connected peer.  The
\* user asks once between two originated blocks.
NetSynchronize(n) ==
    /\ phase[n] = "menu"
    /\ n \notin synced
    /\ HasRoom(wire, n, connected[n])
    /\ wire' = Send(wire, n, connected[n], GetChainMessage)
    /\ synced' = synced \cup {n}
    /\ event' = [NoEvent EXCEPT !.op = "synchronize_blockchain", !.node = n]
    /\ UNCHANGED <<nodevars, user_id, chain, clock, last, chains, phase, connected, watch>>

\* The link thread of node n for peer p reads a transaction message.
NetReceiveTransaction(n, p) ==
    /\ p \in connected[n]
    /\ wire[<<p, n>>] # <<>>
    /\ Head(wire[<<p, n>>]).type = "transaction"
    /\ LET message == Head(wire[<<p, n>>])
           rest == [wire EXCEPT ![<<p, n>>] = Tail(@)]
           r == add_block_from_peer(chains[n], message.block)
           watched == /\ n \in watch[p].peers
                      /\ message.block = to_dict(watch[p].block)
       IN  /\ r.ret => HasRoom(rest, n, broadcast_targets(n, p))
           /\ chains' = [chains EXCEPT ![n] = r.chain]
           /\ wire' = IF r.ret THEN broadcast_transaction(rest, n, message.block, p)
                               ELSE rest
           /\ watch' = IF watched THEN [Touched(watch, n) EXCEPT ![p].peers = @ \ {n}]
                       ELSE IF r.ret THEN Touched(watch, n)
                       ELSE watch
           /\ event' = [NoEvent EXCEPT !.op = "process_peer_message", !.node = n,
                                       !.peer = p, !.type = message.type,
                                       !.ret = <<r.ret>>, !.watched = watched]
    /\ UNCHANGED <<nodevars, user_id, chain, clock, last, phase, connected, synced>>

\* The link thread reads get_chain and answers with the chain on the same link.
NetReceiveGetChain(n, p) ==
    /\ p \in connected[n]
    /\ wire[<<p, n>>] # <<>>
    /\ Head(wire[<<p, n>>]).type = "get_chain"
    /\ LET message == Head(wire[<<p, n>>])
           rest == [wire EXCEPT ![<<p, n>>] = Tail(@)]
       IN  /\ HasRoom(rest, n, {p})
           /\ wire' = Send(rest, n, {p}, ChainMessage(chains[n]))
           /\ event' = [NoEvent EXCEPT !.op = "process_peer_message", !.node = n,
                                       !.peer = p, !.type = message.type]
    /\ UNCHANGED <<nodevars, user_id, chain, clock, last, chains, phase, connected, synced,
                   watch>>

\* The link thread reads a chain message: resolve_conflicts when the chain received
\* is longer than the node's own.
NetReceiveChain(n, p) ==
    /\ p \in connected[n]
    /\ wire[<<p, n>>] # <<>>
    /\ Head(wire[<<p, n>>]).type = "chain"
    /\ LET message == Head(wire[<<p, n>>])
           peer_chain == message.chain
           r == IF Len(peer_chain) > Len(chains[n])
                THEN resolve_conflicts(chains[n], <<peer_chain>>)
                ELSE [chain |-> chains[n], ret |-> FALSE]
       IN  /\ chains' = [chains EXCEPT ![n] = r.chain]
           /\ wire' = [wire EXCEPT ![<<p, n>>] = Tail(@)]
           /\ watch' = IF r.ret THEN Touched(watch, n) ELSE watch
           /\ event' = [NoEvent EXCEPT !.op = "process_peer_message", !.node = n,
                                       !.peer = p, !.type = message.type,
                                       !.ret = <<r.ret>>]
    /\ UNCHANGED <<nodevars, user_id, chain, clock, last, phase, connected, synced>>

NetNext ==
    \/ \E n \in NetNodes : NetStart(n)
    \/ \E n \in NetNodes : NetCheckInitialBalance(n)
    \/ \E n \in NetNodes : NetSendTransaction(n)
    \/ \E n \in NetNodes : NetSynchronize(n)
    \/ \E n \in NetNodes, p \in NetNodes : NetReceiveTransaction(n, p)
    \/ \E n \in NetNodes, p \in NetNodes : NetReceiveGetChain(n, p)
    \/ \E n \in NetNodes, p \in NetNodes : NetReceiveChain(n, p)

SpecNet == NetInit /\ [][NetNext]_vars

\* C12: when a node admits a block, a transaction message carrying that block is
\* sent to every peer of its active set; and when a peer that held the same chain as
\* the admitter, and has not changed its chain since, receives that message from
\* the admitter, it appends the block and holds the chain the admitter held after
\* the admission.
C12_AdmittedBlockReachesPeers ==
    /\ (event.op = "send_transaction" /\ event.raised = "")
       => \A p \in connected[event.node] :
            LET sent == wire[<<event.node, p>>]
            IN  /\ sent # <<>>
                /\ sent[Len(sent)] = TransactionMessage(to_dict(event.block[1]))
    /\ (event.op = "process_peer_message" /\ event.watched)
       => /\ event.ret = <<TRUE>>
          /\ chains[event.node] = watch[event.peer].chain
          /\ chains[event.peer] = watch[event.peer].chain
             => chains[event.node] = chains[event.peer]

\* A peer has received the admitted block and the two chains are equal again.
C12_Witness ==
    /\ event.op = "process_peer_message"
    /\ event.watched
    /\ event.ret = <<TRUE>>
    /\ chains[event.node] = chains[event.peer]

\* Every node runs, every pair of nodes is connected, every node has asked for
\* synchronization since the users originated their latest block, and no message
\* is left on a link.
Quiescent ==
    /\ synced = NetNodes
    /\ \A n \in NetNodes : connected[n] = NetNodes \ {n}
    /\ \A l \in Links : wire[l] = <<>>

\* C13: once the nodes are mutually connected, have originated their last block, have each
\* synchronized and every message is delivered, all nodes hold the same chain.
C13_SynchronizedNodesAgree ==
    Quiescent => \A n, m \in NetNodes : chains[n] = chains[m]

(***************************************************************************)
(* One node and its threads (src/peer.py).  The main thread runs start():  *)
(* connect_to_peers, synchronize_blockchain, check_initial_balance and the *)
(* menu.  Each link has a thread that reads the link in a loop.  A step is *)
(* what a thread does between two points where another thread can run and *)
(* make a difference: taking the lock, leaving it, reading the link,       *)
(* reading the chain or connected_peers outside the lock.  The peers are   *)
(* the environment: they connect, send any message, and close links.       *)
(* outbox holds what the latest step sent, NoSend if it sent nothing.      *)
(***************************************************************************)
LinkIds == {"link1", "link2"}

Threads == {"main"} \cup LinkIds

\* A roster that keeps the node itself.
peers_with_self == users

\* Peer.peers: the roster without the node itself.
peers == users \ {user_id}

\* The peers that run and accept a connection whenever the node dials them.
Reachable == {"bob"}

\* dict assignment, deletion and keys.
Put(d, k, v) == [x \in DOMAIN d \cup {k} |-> IF x = k THEN v ELSE d[x]]

Remove(d, k) == [x \in DOMAIN d \ {k} |-> d[x]]

Keys(d) == DOMAIN d

\* The peer_id values a connecting peer may announce.
HandshakeIds == {"", "mallory", "alice", "Bob", "charlie"}

BlockFields == {"index", "timestamp", "transaction", "previous_hash", "hash"}

\* Blocks a peer may send, given the local chain: the next block, linked to the
\* latest hash or not.
NodeBlocks(c) ==
    LET latest == get_latest_block(c)
    IN  { to_dict(Block(latest.index + 1, 0,
                        Transaction("initial_balance", "bob", MaxAmount), previous_hash)) :
          previous_hash \in {latest.hash, ZeroHash} }

\* What a read of the link may return: nothing (the peer closed the link), bytes
\* that json.loads refuses, or a JSON message: a transaction with a block, with a
\* block that lacks fields or with no block, get_chain, or a chain: of two blocks,
\* of MaxChainLen blocks, or of MaxChainLen blocks with a wrong digest in the last.
Incoming(c) ==
    {[kind |-> "eof"], [kind |-> "garbage"]}
    \cup { [kind |-> "json", message |-> m] :
           m \in { TransactionMessage(b) : b \in NodeBlocks(c) }
                 \cup { TransactionMessage([index |-> 1]),
                        [type |-> "transaction"],
                        GetChainMessage,
                        [type |-> "chain", chain |-> ForeignChain("funded", 2, "none", 2)],
                        [type |-> "chain",
                         chain |-> ForeignChain("funded", MaxChainLen, "none", MaxChainLen)],
                        [type |-> "chain",
                         chain |-> ForeignChain("funded", MaxChainLen, "hash", MaxChainLen)] } }

MainAt(pc) == [pc |-> pc, op |-> "", r |-> <<>>, seen |-> <<>>, block |-> <<>>,
               sealed |-> <<>>]

FreeLink == [pc |-> "free", peer_id |-> "", message |-> <<>>, op |-> "", r |-> <<>>,
             seen |-> <<>>, cause |-> ""]

NoSend == [by |-> "", op |-> "none", trigger |-> "", to |-> {}, failed |-> {},
           block |-> <<>>, peer_id |-> "", status |-> "", closed |-> FALSE,
           registered |-> FALSE]

NodeInit ==
    /\ user_id = "alice"
    /\ chain = <<create_genesis_block(0)>>
    /\ clock = 0
    /\ last = Idle
    /\ NoNetwork
    /\ lock = ""
    /\ connected_peers = <<>>
    /\ main = MainAt("connect_to_peers")
    /\ links = [l \in LinkIds |-> FreeLink]
    /\ outbox = NoSend

\* threading.Lock: a thread enters `with self.lock` when no thread is inside.
\* Here every thread enters at once.
lock_is_free_never_waits(l) == TRUE

lock_is_free(l) == l = ""

\* Leaving `with self.lock` frees the lock.  Here the thread keeps it.
release_forgotten(holder) == holder

release(holder) == ""

\* The peers a broadcast addresses: those found in connected_peers, the excluded
\* one left out.  Here the excluded one is addressed too.
recipients_with_excluded(exclude) == Keys(connected_peers)

recipients(exclude) == Keys(connected_peers) \ {exclude}

\* The peers a loop of sends reached when the send raised for those of failed:
\* the exception is caught inside the loop.  Here the first failure ends the loop.
sent_until_failure(targets, failed) == IF failed = {} THEN targets ELSE {}

sent(targets, failed) == targets \ failed

\* The except branch of a loop of sends: under the lock, the entry of each peer
\* whose send raised is deleted.
Drop(d, ks) == [x \in DOMAIN d \ ks |-> d[x]]

FreeLinks == {l \in LinkIds : links[l].pc = "free"}

\* A new thread takes the first unused slot: which slot is of no consequence.
NewLink == CHOOSE l \in FreeLinks : \A k \in FreeLinks : l = "link1" \/ k # "link1"

\* connect_to_peers, one peer of the loop at a time: a reachable peer that is not
\* connected is dialled and sent the node's peer_id, answers "connected", is
\* registered under the lock and gets its listen_to_peer thread; the other dials
\* fail.
MainConnect ==
    /\ main.pc = "connect_to_peers"
    /\ LET dialable == (Reachable \cap peers) \ Keys(connected_peers)
       IN  IF dialable = {} \/ FreeLinks = {}
           THEN /\ main' = MainAt("synchronize_blockchain")
                /\ outbox' = NoSend
                /\ UNCHANGED <<lock, connected_peers, links>>
           ELSE /\ lock_is_free(lock)
                /\ \E peer_id \in dialable :
                     /\ connected_peers' = Put(connected_peers, peer_id, NewLink)
                     /\ links' = [links EXCEPT ![NewLink] =
                                     [FreeLink EXCEPT !.pc = "recv", !.peer_id = peer_id]]
                     /\ outbox' = [NoSend EXCEPT !.by = "main", !.op = "peer_id",
                                                 !.to = {peer_id}]
                /\ UNCHANGED <<lock, main>>
    /\ UNCHANGED <<user_id, chain, clock, last, netvars>>

\* synchronize_blockchain: get_chain to every peer found in connected_peers, which
\* is read without the lock.  A send that raises costs the peer its entry, which
\* is deleted under the lock, and the loop goes on.
synchronize_blockchain(trigger) ==
    \E failed \in SUBSET Keys(connected_peers) :
        /\ failed # {} => lock_is_free(lock)
        /\ outbox' = [NoSend EXCEPT !.by = "main", !.op = "get_chain",
                                    !.trigger = trigger,
                                    !.to = sent(Keys(connected_peers), failed),
                                    !.failed = failed]
        /\ connected_peers' = Drop(connected_peers, failed)

MainStartSynchronize ==
    /\ main.pc = "synchronize_blockchain"
    /\ synchronize_blockchain("start")
    /\ main' = MainAt("check_initial_balance")
    /\ UNCHANGED <<user_id, chain, clock, lock, links, last, netvars>>

\* check_initial_balance reads the balance: 0 leads to the prompt.
MainCheckInitialBalance ==
    /\ main.pc = "check_initial_balance"
    /\ main' = IF get_balance(chain, user_id) = 0 THEN MainAt("prompt")
               ELSE MainAt("main_menu")
    /\ outbox' = NoSend
    /\ UNCHANGED <<user_id, chain, clock, lock, connected_peers, links, last, netvars>>

\* The user has typed the balance: the thread takes the lock and set_initial_balance
\* validates and seals the block.
MainSetInitialBalance ==
    /\ main.pc = "prompt"
    /\ Len(chain) < MaxChainLen
    /\ lock_is_free(lock)
    /\ lock' = "main"
    /\ \E initial_balance \in InitialFunds :
         main' = [MainAt("locked") EXCEPT
                     !.op = "set_initial_balance",
                     !.r = set_initial_balance(chain, user_id, initial_balance, clock + 1),
                     !.seen = chain]
    /\ outbox' = NoSend
    /\ UNCHANGED <<user_id, chain, clock, connected_peers, links, last, netvars>>

\* Menu choice 1 with a valid recipient and amount, within the balance or beyond
\* it: the thread takes the lock and add_transaction validates and seals the block,
\* or raises.
MainSendTransaction ==
    /\ main.pc = "main_menu"
    /\ Len(chain) < MaxChainLen
    /\ lock_is_free(lock)
    /\ lock' = "main"
    /\ \E recipient \in Reachable, amount \in SentAmounts \cup {MaxAmount + 1} :
         main' = [MainAt("locked") EXCEPT
                     !.op = "add_transaction",
                     !.r = add_transaction(chain, user_id, recipient, amount, clock + 1),
                     !.seen = chain]
    /\ outbox' = NoSend
    /\ UNCHANGED <<user_id, chain, clock, connected_peers, links, last, netvars>>

\* The ledger operation appends its block and the thread leaves the lock.
\* send_transaction keeps the block add_transaction returned.
MainCommit ==
    /\ main.pc = "locked"
    /\ lock' = release(lock)
    /\ IF main.op = "set_initial_balance"
       THEN LET block == get_latest_block(main.r.chain)
            IN  /\ chain' = Append(chain, block)
                /\ clock' = clock + 1
                /\ main' = [MainAt("take_block") EXCEPT !.sealed = <<block>>]
       ELSE IF main.r.raised = ""
       THEN /\ chain' = Append(chain, main.r.ret[1])
            /\ clock' = clock + 1
            /\ main' = [MainAt("broadcast_transaction") EXCEPT
                           !.block = main.r.ret, !.sealed = main.r.ret]
       ELSE /\ main' = MainAt("main_menu")
            /\ UNCHANGED <<chain, clock>>
    /\ outbox' = NoSend
    /\ UNCHANGED <<user_id, connected_peers, links, last, netvars>>

\* check_initial_balance, after the lock: block = self.blockchain.chain[-1].
MainTakeBlock ==
    /\ main.pc = "take_block"
    /\ main' = [main EXCEPT !.pc = "broadcast_transaction",
                            !.block = <<chain[Len(chain)]>>]
    /\ outbox' = NoSend
    /\ UNCHANGED <<user_id, chain, clock, lock, connected_peers, links, last, netvars>>

\* broadcast_transaction(block_dict, exclude): the block is sent to every peer
\* found in connected_peers, which is read without the lock, but the excluded one.
\* A send that raises costs the peer its entry, which is deleted under the lock,
\* and the loop goes on.
broadcast_transaction_by(thread, block, exclude) ==
    \E failed \in SUBSET recipients(exclude) :
        /\ failed # {} => lock_is_free(lock)
        /\ outbox' = [NoSend EXCEPT !.by = thread, !.op = "transaction",
                                    !.to = sent(recipients(exclude), failed),
                                    !.failed = failed,
                                    !.peer_id = exclude,
                                    !.block = block]
        /\ connected_peers' = Drop(connected_peers, failed)

MainBroadcast ==
    /\ main.pc = "broadcast_transaction"
    /\ broadcast_transaction_by("main", main.block, "")
    /\ main' = MainAt("main_menu")
    /\ UNCHANGED <<user_id, chain, clock, lock, links, last, netvars>>

\* Menu choice 5: synchronize_blockchain and nothing else.
MainMenuSynchronize ==
    /\ main.pc = "main_menu"
    /\ synchronize_blockchain("menu")
    /\ UNCHANGED <<user_id, chain, clock, lock, main, links, last, netvars>>

\* listen_for_connections accepts a connection and starts handle_peer_connection.
LinkAccept(l) ==
    /\ links[l].pc = "free"
    /\ l = NewLink
    /\ links' = [links EXCEPT ![l] = [FreeLink EXCEPT !.pc = "handshake"]]
    /\ outbox' = NoSend
    /\ UNCHANGED <<user_id, chain, clock, lock, connected_peers, main, last, netvars>>

\* handle_peer_connection up to its read loop.  A handshake json.loads refuses
\* ends the thread in its finally block, peer_id being unbound, with nothing sent
\* and the socket left as it is.  An empty or unknown peer_id is answered with an
\* error, the socket is closed and the function returns through the finally block.
\* A known peer_id is registered under the lock and acknowledged.
LinkHandshake(l) ==
    /\ links[l].pc = "handshake"
    /\ \/ /\ lock_is_free(lock)
          /\ links' = [links EXCEPT ![l] = FreeLink]
          /\ outbox' = [NoSend EXCEPT !.by = l, !.op = "handshake_unparsed"]
          /\ UNCHANGED connected_peers
       \/ \E announced \in HandshakeIds :
            LET peer_id == Lower(announced)
            IN  IF peer_id = "" \/ peer_id \notin peers
                THEN /\ links' = [links EXCEPT ![l] =
                                     [FreeLink EXCEPT !.pc = "finally",
                                                      !.peer_id = peer_id,
                                                      !.cause = "rejected"]]
                     /\ outbox' = [NoSend EXCEPT !.by = l, !.op = "handshake",
                                                 !.peer_id = peer_id,
                                                 !.status = "error", !.closed = TRUE]
                     /\ UNCHANGED connected_peers
                ELSE /\ lock_is_free(lock)
                     /\ connected_peers' = Put(connected_peers, peer_id, l)
                     /\ links' = [links EXCEPT ![l] =
                                     [FreeLink EXCEPT !.pc = "recv", !.peer_id = peer_id]]
                     /\ outbox' = [NoSend EXCEPT !.by = l, !.op = "handshake",
                                                 !.peer_id = peer_id,
                                                 !.status = "connected",
                                                 !.registered = TRUE]
    /\ UNCHANGED <<user_id, chain, clock, lock, main, last, netvars>>

\* One turn of the read loop (handle_peer_connection, listen_to_peer) up to the
\* lock, with process_peer_message.  No data, or data json.loads refuses, ends the
\* loop.  A transaction whose block lacks a field raises KeyError in
\* Block.from_dict, inside the lock, and ends the loop too.  A transaction with no
\* block is ignored.  get_chain is answered at once.  A chain is kept for
\* resolve_conflicts when it is longer than the local chain.
LinkRead(l) ==
    /\ links[l].pc = "recv"
    /\ \E data \in Incoming(chain) :
         LET message == data.message
             here == [links[l] EXCEPT !.cause = ""]
         IN  IF data.kind = "eof"
             THEN /\ links' = [links EXCEPT ![l] = [here EXCEPT !.pc = "finally",
                                                               !.cause = "eof"]]
                  /\ outbox' = NoSend
             ELSE IF data.kind = "garbage"
             THEN /\ links' = [links EXCEPT ![l] = [here EXCEPT !.pc = "finally",
                                                               !.cause = "malformed"]]
                  /\ outbox' = NoSend
             ELSE IF message.type = "transaction" /\ "block" \notin DOMAIN message
             THEN /\ links' = [links EXCEPT ![l] = [here EXCEPT !.cause = "malformed"]]
                  /\ outbox' = NoSend
             ELSE IF message.type = "transaction"
                     /\ ~(BlockFields \subseteq DOMAIN message.block)
             THEN /\ lock_is_free(lock)
                  /\ links' = [links EXCEPT ![l] = [here EXCEPT !.pc = "finally",
                                                               !.cause = "malformed"]]
                  /\ outbox' = NoSend
             ELSE IF message.type = "transaction"
             THEN /\ Len(chain) < MaxChainLen
                  /\ links' = [links EXCEPT ![l] =
                                  [here EXCEPT !.pc = "add_block_from_peer",
                                               !.message = message]]
                  /\ outbox' = NoSend
             ELSE IF message.type = "get_chain"
             THEN /\ links' = [links EXCEPT ![l] = here]
                  /\ outbox' = [NoSend EXCEPT !.by = l, !.op = "chain",
                                              !.to = {links[l].peer_id}]
             ELSE IF Len(message.chain) > Len(chain)
             THEN /\ links' = [links EXCEPT ![l] =
                                  [here EXCEPT !.pc = "resolve_conflicts",
                                               !.message = message]]
                  /\ outbox' = NoSend
             ELSE /\ links' = [links EXCEPT ![l] = here]
                  /\ outbox' = NoSend
    /\ UNCHANGED <<user_id, chain, clock, lock, connected_peers, main, last, netvars>>

\* process_peer_message enters the lock: add_block_from_peer or resolve_conflicts
\* validates what was received against the chain.
LinkAcquire(l) ==
    /\ links[l].pc \in {"add_block_from_peer", "resolve_conflicts"}
    /\ lock_is_free(lock)
    /\ lock' = l
    /\ links' = [links EXCEPT ![l] =
                    [@ EXCEPT !.pc = "locked",
                              !.op = links[l].pc,
                              !.r = IF links[l].pc = "add_block_from_peer"
                                    THEN add_block_from_peer(chain, links[l].message.block)
                                    ELSE resolve_conflicts(chain, <<links[l].message.chain>>),
                              !.seen = chain]]
    /\ outbox' = NoSend
    /\ UNCHANGED <<user_id, chain, clock, connected_peers, main, last, netvars>>

\* The ledger operation appends the block or installs the chain and the thread
\* leaves the lock; an accepted block is then relayed.
LinkCommit(l) ==
    /\ links[l].pc = "locked"
    /\ lock' = release(lock)
    /\ LET t == links[l]
           back == [FreeLink EXCEPT !.pc = "recv", !.peer_id = t.peer_id]
       IN  IF t.op = "add_block_from_peer"
           THEN /\ chain' = IF t.r.ret THEN Append(chain, from_dict(t.message.block))
                            ELSE chain
                /\ links' = [links EXCEPT ![l] =
                                IF t.r.ret
                                THEN [back EXCEPT !.pc = "relay", !.message = t.message]
                                ELSE back]
           ELSE /\ chain' = IF t.r.ret THEN t.r.chain ELSE chain
                /\ links' = [links EXCEPT ![l] = back]
    /\ outbox' = NoSend
    /\ UNCHANGED <<user_id, clock, connected_peers, main, last, netvars>>

\* broadcast_transaction(block_dict, exclude=peer_id) by the link thread.
LinkRelay(l) ==
    /\ links[l].pc = "relay"
    /\ broadcast_transaction_by(l, <<links[l].message.block>>, links[l].peer_id)
    /\ links' = [links EXCEPT ![l] = [FreeLink EXCEPT !.pc = "recv",
                                                      !.peer_id = links[l].peer_id]]
    /\ UNCHANGED <<user_id, chain, clock, lock, main, last, netvars>>

\* The finally block of the link thread: under the lock the entry of peer_id is
\* deleted from connected_peers, then the socket is closed and the thread ends.
LinkFinally(l) ==
    /\ links[l].pc = "finally"
    /\ lock_is_free(lock)
    /\ connected_peers' = IF links[l].peer_id \in Keys(connected_peers)
                          THEN Remove(connected_peers, links[l].peer_id)
                          ELSE connected_peers
    /\ links' = [links EXCEPT ![l] =
                    IF links[l].cause = "rejected" THEN FreeLink
                    ELSE [FreeLink EXCEPT !.peer_id = links[l].peer_id,
                                          !.cause = links[l].cause]]
    /\ outbox' = NoSend
    /\ UNCHANGED <<user_id, chain, clock, lock, main, last, netvars>>

NodeNext ==
    \/ MainConnect
    \/ MainStartSynchronize
    \/ MainCheckInitialBalance
    \/ MainSetInitialBalance
    \/ MainSendTransaction
    \/ MainCommit
    \/ MainTakeBlock
    \/ MainBroadcast
    \/ MainMenuSynchronize
    \/ \E l \in LinkIds : LinkAccept(l)
    \/ \E l \in LinkIds : LinkHandshake(l)
    \/ \E l \in LinkIds : LinkRead(l)
    \/ \E l \in LinkIds : LinkAcquire(l)
    \/ \E l \in LinkIds : LinkCommit(l)
    \/ \E l \in LinkIds : LinkRelay(l)
    \/ \E l \in LinkIds : LinkFinally(l)

SpecNode == NodeInit /\ [][NodeNext]_vars

\* C14: an accepted connection whose handshake announces an empty peer_id, one
\* outside the roster or the node's own identity is answered with status error, its
\* socket is closed and nothing is registered; and the keys of connected_peers are
\* always roster identities other than the node's own.
C14_InvalidHandshakeRejected ==
    /\ Keys(connected_peers) \subseteq users \ {user_id}
    /\ ( /\ outbox.op = "handshake"
         /\ \/ outbox.peer_id = ""
            \/ outbox.peer_id \notin users
            \/ outbox.peer_id = user_id )
       => /\ outbox.status = "error"
          /\ outbox.closed
          /\ ~outbox.registered

\* The node's own identity was announced and refused while a peer is registered.
C14_Witness ==
    /\ outbox.op = "handshake"
    /\ outbox.peer_id = user_id
    /\ outbox.status = "error"
    /\ Keys(connected_peers) # {}

\* C15: a link whose latest read was a malformed message (unparseable, or a
\* transaction whose block lacks fields or is absent) is still open: its thread is
\* back in the read loop.
C15_MalformedMessageKeepsLinkOpen ==
    \A l \in LinkIds : links[l].cause = "malformed" => links[l].pc = "recv"

\* The link of peer p ended and nothing has used its thread slot since.
Dropped(p) ==
    \E l \in LinkIds : /\ links[l].pc = "free"
                       /\ links[l].peer_id = p
                       /\ links[l].cause \in {"eof", "malformed"}

\* C16: a synchronization asked from the menu sends get_chain to every reachable
\* known peer, a peer whose link was dropped before included (it has been dialled
\* again).
C16_SynchronizeRedialsDroppedPeers ==
    \A p \in Reachable \cap peers :
        (outbox.op = "get_chain" /\ outbox.trigger = "menu" /\ Dropped(p))
        => p \in outbox.to

InLedgerOperation(t) ==
    IF t = "main" THEN main.pc = "locked" ELSE links[t].pc = "locked"

ChainSeen(t) == IF t = "main" THEN main.seen ELSE links[t].seen

\* C18: a thread that is inside add_transaction, set_initial_balance,
\* add_block_from_peer or resolve_conflicts holds the lock, no other thread is
\* inside one of them, and the chain is still the one the operation validated
\* against.
C18_LedgerOperationsExclusive ==
    \A t \in Threads :
        InLedgerOperation(t)
        => /\ lock = t
           /\ chain = ChainSeen(t)
           /\ \A u \in Threads \ {t} : ~InLedgerOperation(u)

\* The main thread is inside a ledger operation while a link thread waits for the
\* lock with a block or a chain to apply.
C18_Witness ==
    /\ main.pc = "locked"
    /\ \E l \in LinkIds : links[l].pc \in {"add_block_from_peer", "resolve_conflicts"}

\* C19: a thread about to enumerate connected_peers, for a broadcast or for a
\* synchronization, holds the lock.
C19_EnumerationUnderLock ==
    /\ main.pc \in {"broadcast_transaction", "synchronize_blockchain"} => lock = "main"
    /\ \A l \in LinkIds : links[l].pc = "relay" => lock = l

\* C20: the block the main thread is about to broadcast after add_transaction or
\* set_initial_balance is the block that operation appended.
C20_BroadcastCarriesSealedBlock ==
    main.pc = "broadcast_transaction" => main.block = main.sealed

\* Blockchain.to_dict and Blockchain.from_dict: the chain as a dictionary of block
\* dictionaries, and the chain rebuilt from it.
Blockchain_to_dict(c) == [chain |-> [i \in 1..Len(c) |-> to_dict(c[i])]]

Blockchain_from_dict(blockchain_dict) ==
    [i \in 1..Len(blockchain_dict.chain) |-> from_dict(blockchain_dict.chain[i])]

Reloaded(c) == Blockchain_from_dict(Blockchain_to_dict(c))

\* C17: the chain rebuilt by from_dict from what to_dict produced has the same
\* blocks, field for field, and is valid if the chain was valid.  (Every chain
\* the node reaches is held between two calls, so it is read there.)
C17_ReloadPreservesChain ==
    last = Idle =>
        LET reloaded == Reloaded(chain)
        IN  /\ Len(reloaded) = Len(chain)
            /\ \A i \in 1..Len(chain) :
                 /\ reloaded[i].index = chain[i].index
                 /\ reloaded[i].timestamp = chain[i].timestamp
                 /\ reloaded[i].transaction = chain[i].transaction
                 /\ reloaded[i].previous_hash = chain[i].previous_hash
                 /\ reloaded[i].hash = chain[i].hash
            /\ is_chain_valid(chain) => is_chain_valid(reloaded)

\* A valid chain of several blocks is reloaded valid.
C17_Witness ==
    /\ last = Idle
    /\ Len(chain) >= 2
    /\ is_chain_valid(chain)
    /\ is_chain_valid(Reloaded(chain))

(***************************************************************************)
(* Properties of the threads of one node, continued.                       *)
(***************************************************************************)
Holds(t) == lock = t

\* C21: no thread sends or waits in a receive while it holds the lock: the thread
\* of every send (the node's peer_id, a handshake answer, a chain, a get_chain, a
\* transaction) holds the lock neither before nor after the step that sends, and a
\* link thread that waits for data from its link does not hold it.
C21_NoNetworkUnderLock ==
    /\ [](\A l \in LinkIds : links[l].pc \in {"handshake", "recv"} => ~Holds(l))
    /\ [][outbox' # NoSend => (lock # outbox'.by /\ lock' # outbox'.by)]_vars

\* The main thread has broadcast a block while a link thread held the lock.
C21_Witness ==
    /\ outbox.op = "transaction"
    /\ outbox.by = "main"
    /\ outbox.to # {}
    /\ lock \in LinkIds

\* C22: in a broadcast of a transaction, the peers whose send raised lose their
\* entry in connected_peers and no other entry changes; every other peer that was
\* in connected_peers, the excluded one apart, is sent the block; the chain is as
\* it was and the broadcasting thread goes on, to the menu or to its read loop.
C22_SendFailureDropsOnlyThatPeer ==
    [][ outbox'.op = "transaction"
        => LET enumerated == Keys(connected_peers) \ {outbox'.peer_id}
           IN  /\ outbox'.failed \subseteq enumerated
               /\ outbox'.to = enumerated \ outbox'.failed
               /\ Keys(connected_peers') = Keys(connected_peers) \ outbox'.failed
               /\ \A p \in Keys(connected_peers') :
                    connected_peers'[p] = connected_peers[p]
               /\ chain' = chain
               /\ IF outbox'.by = "main" THEN main'.pc = "main_menu"
                  ELSE links'[outbox'.by].pc = "recv" ]_vars

\* A broadcast in which the send to one peer raised and another peer was sent the
\* block.
C22_Witness ==
    /\ outbox.op = "transaction"
    /\ outbox.failed # {}
    /\ outbox.to # {}
    /\ Keys(connected_peers) = outbox.to

\* C23: a link thread broadcasts a block only as the relay of a transaction message
\* whose add_block_from_peer returned True and appended the block, and the relay
\* reaches every peer of connected_peers but the one the message came from; when
\* add_block_from_peer returns False the chain is unchanged, nothing is sent and the
\* thread is back in its read loop.
C23_RelayOnlyAcceptedBlocks ==
    [][ \A l \in LinkIds :
          LET t == links[l]
          IN  /\ (outbox'.op = "transaction" /\ outbox'.by = l)
                 => /\ t.pc = "relay"
                    /\ outbox'.block = <<t.message.block>>
                    /\ t.peer_id \notin outbox'.to
                    /\ outbox'.to \cup outbox'.failed
                          = Keys(connected_peers) \ {t.peer_id}
              /\ (links'[l].pc = "relay" /\ t.pc # "relay")
                 => /\ t.pc = "locked"
                    /\ t.op = "add_block_from_peer"
                    /\ t.r.ret
                    /\ chain' = Append(chain, from_dict(t.message.block))
              /\ (t.pc = "locked" /\ t.op = "add_block_from_peer" /\ ~t.r.ret
                  /\ links'[l] # t)
                 => /\ chain' = chain
                    /\ outbox' = NoSend
                    /\ links'[l].pc = "recv" ]_vars

\* A link thread has relayed an accepted block to a peer other than the sender.
C23_Witness ==
    \E l \in LinkIds :
        /\ outbox.op = "transaction"
        /\ outbox.by = l
        /\ outbox.to # {}
        /\ links[l].peer_id \notin outbox.to
        /\ links[l].peer_id \in Keys(connected_peers)

\* The chain of the chain message link thread l is handling, as blocks.
Received(l) == Blockchain_from_dict([chain |-> links[l].message.chain])

\* C25: whatever the other threads do between the length comparison and the lock,
\* the handling of a chain message leaves the chain as it is or makes it the
\* received chain, and replaces it only when the received chain is structurally
\* valid and strictly longer than the chain at the moment of the replacement; no
\* step of the handler before the commit touches the chain.
C25_ChainMessageHandling ==
    [][ \A l \in LinkIds :
          LET t == links[l]
          IN  /\ (t.pc = "locked" /\ t.op = "resolve_conflicts" /\ links'[l] # t)
                 => /\ chain' = chain \/ chain' = Received(l)
                    /\ chain' # chain => /\ StructurallyValid(Received(l))
                                         /\ Len(Received(l)) > Len(chain)
                    /\ Len(Received(l)) <= Len(chain) => chain' = chain
              /\ (t.pc \in {"recv", "resolve_conflicts"} /\ links'[l] # t)
                 => chain' = chain ]_vars

\* A received chain passed the length comparison, the chain grew to its length
\* before the thread had the lock, and resolve_conflicts refuses it.
C25_Witness ==
    \E l \in LinkIds :
        /\ links[l].pc = "locked"
        /\ links[l].op = "resolve_conflicts"
        /\ Len(Received(l)) = Len(chain)
        /\ StructurallyValid(Received(l))
        /\ ~links[l].r.ret

\* The read loop of link thread l is running.
Running(l) == links[l].pc \in {"recv", "add_block_from_peer", "resolve_conflicts",
                               "locked", "relay"}

\* Every link with a running read loop is the one registered under its peer_id, so
\* that no two of them belong to the same peer; and every entry of connected_peers
\* names a link of that peer whose read loop is running or that is in its finally
\* block, about to delete the entry.
ActiveSetConsistent ==
    /\ \A l, k \in LinkIds :
         (l # k /\ Running(l) /\ Running(k)) => links[l].peer_id # links[k].peer_id
    /\ \A l \in LinkIds :
         Running(l) => /\ links[l].peer_id \in Keys(connected_peers)
                       /\ connected_peers[links[l].peer_id] = l
    /\ \A p \in Keys(connected_peers) :
         /\ links[connected_peers[p]].peer_id = p
         /\ Running(connected_peers[p]) \/ links[connected_peers[p]].pc = "finally"

\* The finally block of link l deletes no entry that names another link whose read
\* loop is running.
TeardownKeepsOtherLinks(l) ==
    (links[l].pc = "finally" /\ links'[l].pc = "free")
    => \A p \in Keys(connected_peers) :
         (connected_peers[p] # l /\ Running(connected_peers[p]))
         => (p \in Keys(connected_peers') /\ connected_peers'[p] = connected_peers[p])

\* C26: at most one link per peer has a running read loop, a peer is in
\* connected_peers exactly while the link registered under it is open, and the end
\* of one link never deletes the entry of another, still open, link of the same
\* peer.
C26_ActiveSetConsistency ==
    /\ []ActiveSetConsistent
    /\ [][\A l \in LinkIds : TeardownKeepsOtherLinks(l)]_vars

\* The thread inside `with self.lock` reaches the end of the block.
LeaveLock == MainCommit \/ \E l \in LinkIds : LinkCommit(l)

\* The node with its scheduler: a thread inside `with self.lock` runs a ledger call
\* that neither blocks nor waits, so it reaches the end of the block.
SpecNodeFair ==
    /\ SpecNode
    /\ WF_lock(LeaveLock)

\* C30: a thread that holds the lock leaves it: the step that ends its ledger
\* operation frees the lock whatever the outcome (a block appended, a chain
\* installed, add_transaction raising, add_block_from_peer or resolve_conflicts
\* returning False), and the lock is free again and again: once taken, it is
\* eventually free.
C30_LockEventuallyReleased ==
    /\ [][ /\ (main.pc = "locked" /\ main' # main) => lock' = ""
           /\ \A l \in LinkIds :
                (links[l].pc = "locked" /\ links'[l] # links[l]) => lock' = "" ]_vars
    /\ []<>(lock = "")

\* add_transaction has raised inside the lock while a link thread waits for the
\* lock.
C30_Witness ==
    /\ lock = "main"
    /\ main.op = "add_transaction"
    /\ main.r.raised # ""
    /\ \E l \in LinkIds : links[l].pc \in {"add_block_from_peer", "resolve_conflicts",
                                           "finally"}

(***************************************************************************)
(* Properties of the ledger, continued.                                    *)
(***************************************************************************)
\* The node when blocks are only appended: local operations and blocks of peers,
\* with amounts that are not negative, and no replacement of the chain.
NextAppend == Admit \/ SetInitialBalance \/ IngestRemoteBlock \/ Return

SpecAppend == Init /\ [][NextAppend]_vars

\* C27: on a chain grown from the genesis block by add_transaction,
\* set_initial_balance and add_block_from_peer, the derived balance of every roster
\* identity is at least 0.
C27_BalancesNonNegative == \A user \in users : get_balance(chain, user) >= 0

\* A transfer was admitted that spent the whole balance of its sender.
C27_Witness ==
    /\ last.op = "add_transaction"
    /\ last.raised = ""
    /\ last.args[3] > 0
    /\ get_balance(last.old, Lower(last.args[1])) = last.args[3]
    /\ get_balance(chain, Lower(last.args[1])) = 0

\* C28: the chain never gets shorter.  After add_transaction or
\* set_initial_balance that did not raise and after add_block_from_peer that
\* returned True it has exactly one block more than before the call; after a call
\* that raised or returned False it is the chain of before; after
\* resolve_conflicts that returned True it is strictly longer.
C28_LengthNeverDecreases ==
    /\ last.op \in {"add_transaction", "set_initial_balance"}
       => IF last.raised = "" THEN Len(chain) = Len(last.old) + 1
          ELSE chain = last.old
    /\ last.op = "add_block_from_peer"
       => IF last.ret = <<TRUE>> THEN Len(chain) = Len(last.old) + 1
          ELSE chain = last.old
    /\ last.op = "resolve_conflicts"
       => IF last.ret = <<TRUE>> THEN Len(chain) > Len(last.old)
          ELSE chain = last.old

\* resolve_conflicts replaced a chain of several blocks by a longer one.
C28_Witness ==
    /\ last.op = "resolve_conflicts"
    /\ last.ret = <<TRUE>>
    /\ Len(last.old) >= 2
    /\ Len(chain) > Len(last.old)

(***************************************************************************)
(* Properties of the network, continued.                                   *)
(***************************************************************************)
\* C29: the chain of every running node, whose blocks all come from the nodes' own
\* operations and from the messages they exchange, has a first block that is a
\* genesis block (index 0, previous_hash "0", genesis to genesis, amount 0), and
\* the block at position i (from 0) has index i.
C29_GenesisFirstAndIndexed ==
    \A n \in NetNodes :
        phase[n] # "down"
        => /\ Len(chains[n]) >= 1
           /\ chains[n][1].index = 0
           /\ chains[n][1].previous_hash = ZeroHash
           /\ chains[n][1].transaction = GenesisTransaction
           /\ \A i \in 1..Len(chains[n]) : chains[n][i].index = i - 1

\* A node has adopted the longer chain of a peer, and another holds a chain of its
\* own making.
C29_Witness ==
    /\ event.op = "process_peer_message"
    /\ event.type = "chain"
    /\ event.ret = <<TRUE>>
    /\ Len(chains[event.node]) >= 2
    /\ \A n \in NetNodes : phase[n] # "down"

(***************************************************************************)
(* Relaying among three mutually connected nodes that hold the same chain: *)
(* the genesis block and alice's initial balance.  alice is at the menu,   *)
(* bob and charlie, whose balance is 0, at the prompt.  alice and bob      *)
(* originate blocks and the link threads ingest and relay them.            *)
(***************************************************************************)
RelayNodes == {"alice", "bob", "charlie"}

SharedChain == set_initial_balance(<<create_genesis_block(0)>>, "alice", MaxAmount, 1).chain

RelayInit ==
    /\ user_id = ""
    /\ chain = <<>>
    /\ clock = 1
    /\ last = Idle
    /\ chains = [n \in RelayNodes |-> SharedChain]
    /\ phase = [n \in RelayNodes |-> IF n = "alice" THEN "menu" ELSE "prompt"]
    /\ connected = [n \in RelayNodes |-> RelayNodes \ {n}]
    /\ wire = [l \in Links |-> <<>>]
    /\ synced = {}
    /\ watch = [n \in RelayNodes |-> NoWatch]
    /\ event = NoEvent
    /\ NoThreads

\* The user at bob may answer the prompt; the user at charlie does not.
Answering == {"bob"}

\* Some link thread reads the transaction message that waits on its link.
Deliver == \E n \in NetNodes, p \in NetNodes : NetReceiveTransaction(n, p)

RelayNext ==
    \/ \E n \in Answering : NetCheckInitialBalance(n)
    \/ \E n \in NetNodes : NetSendTransaction(n)
    \/ Deliver

\* The link threads are always in their read loops: while messages wait to be
\* read, one is read (and so leaves its link).
SpecRelay ==
    /\ RelayInit
    /\ [][RelayNext]_vars
    /\ WF_wire(Deliver)

\* No block is twice in the chain of a node: appended by an ingestion, a block twice
\* ingested would be.
NoBlockTwice ==
    \A n \in NetNodes :
        \A i, j \in 1..Len(chains[n]) : chains[n][i] = chains[n][j] => i = j

TransactionsInFlight ==
    { l \in Links : \E i \in 1..Len(wire[l]) : wire[l][i].type = "transaction" }

\* C24: no node ingests, and so relays, a block twice, and from some point on no
\* transaction message is in flight.
C24_RelayTerminates ==
    /\ []NoBlockTwice
    /\ <>[](TransactionsInFlight = {})

\* A node refuses the second delivery of a block it holds, every node holding the
\* same chain of three blocks.
C24_Witness ==
    /\ event.op = "process_peer_message"
    /\ event.type = "transaction"
    /\ event.ret = <<FALSE>>
    /\ \A n \in NetNodes : /\ chains[n] = chains[event.node]
                           /\ Len(chains[n]) = Len(SharedChain) + 1

====
